---------------------------- MODULE Spec2Model ----------------------------
(***************************************************************************)
(* A model of helpers.py: the text formatter to_markdown, the document     *)
(* concatenator format_docs, the process-wide session store behind         *)
(* get_session_history, and the JSON file cache behind                     *)
(* load_wikipedia_with_cache.                                              *)
(*                                                                         *)
(* A text is a sequence of characters.  A character is a one-element       *)
(* string; the characters that cannot be written in a TLA+ string literal  *)
(* carry a name (BT is the backtick, BULLET the bullet glyph U+2022).      *)
(***************************************************************************)
EXTENDS Naturals, Sequences, FiniteSets, TLC

VARIABLES
    md_text,       \* to_markdown: the argument `text`
    md_result,     \* to_markdown: the Markdown object returned (or not yet called)
    fd_docs,       \* format_docs: the argument `docs`
    fd_result,     \* format_docs: what the call produced (or not yet called)
    store,         \* helpers.store: session id -> history object (a reference)
    heap,          \* the ChatMessageHistory objects: reference -> messages
    session_ret,   \* get_session_history: the last call and what it returned
    display_out,   \* the notebook display sink: the last thing displayed
    first_hist,    \* observer: session id -> the reference its first call returned
    file,          \* the cache file CACHE_FILE
    last_call,     \* load_wikipedia_with_cache: the last call and its outcome
    loader_calls,  \* observer: title -> number of WikipediaLoader(title).load() calls
    requested,     \* observer: the titles asked for so far
    pc,            \* per process: where it is in load_wikipedia_with_cache
    l_title,       \* per process: local `title`
    l_cache,       \* per process: local `cache`
    l_docs,        \* per process: local `docs`
    l_out,         \* per process: the chunks json.dump hands to f.write, in order
    l_off,         \* per process: the offset of its file descriptor (chunks written)
    ret,           \* per process: the outcome of its last finished call
    clean          \* observer, per process: nobody else touched the file since it opened it

md_vars      == <<md_text, md_result>>
fd_vars      == <<fd_docs, fd_result>>
session_vars == <<store, heap, session_ret, display_out, first_hist>>
cache_vars   == <<file, last_call, loader_calls, requested>>
proc_vars    == <<pc, l_title, l_cache, l_docs, l_out, l_off, ret, clean>>
vars == <<md_text, md_result, fd_docs, fd_result,
          store, heap, session_ret, display_out, first_hist,
          file, last_call, loader_calls, requested,
          pc, l_title, l_cache, l_docs, l_out, l_off, ret, clean>>

-----------------------------------------------------------------------------
(* Bounds of the model.                                                    *)

\* to_markdown inputs are concatenations of at most MaxPieces pieces of MdPieces
MaxPieces == 5
\* format_docs inputs are lists of at most MaxFmtDocs documents
MaxFmtDocs == 3
\* a history holds at most MaxTurns messages
MaxTurns == 2
\* at most MaxHistories history objects are ever created
MaxHistories == 4
\* the page loader returns at most MaxDocs documents
MaxDocs == 2
\* the page loader is invoked at most MaxLoads times per title
MaxLoads == 2

-----------------------------------------------------------------------------
(* Characters and texts.                                                   *)

NL     == "\n"
SP     == " "
TAB    == "\t"
BT     == "BT"
BULLET == "BULLET"
STAR   == "*"
GT     == ">"

\* the characters str.strip() removes that the model's texts can hold
Whitespace == {SP, TAB, NL}

\* "```"
Fence == <<BT, BT, BT>>
\* "```python\n", the literal head of the pattern r"```python\n(.*?)\n```"
FenceOpen == <<BT, BT, BT, "p", "y", "t", "h", "o", "n", NL>>
\* "\n```", the literal tail of the pattern
FenceClose == <<NL, BT, BT, BT>>

\* s[i..] starts with pat
StartsWithAt(s, i, pat) ==
    /\ i + Len(pat) - 1 <= Len(s)
    /\ SubSeq(s, i, i + Len(pat) - 1) = pat

\* str.startswith
StartsWith(s, pat) == StartsWithAt(s, 1, pat)

\* text.replace('•', '  * ')
RECURSIVE ReplaceBullets(_)
ReplaceBullets(s) ==
    IF s = <<>> THEN <<>>
    ELSE (IF Head(s) = BULLET THEN <<SP, SP, STAR, SP>> ELSE <<Head(s)>>)
         \o ReplaceBullets(Tail(s))

\* preserve_code(match): f"\n```python\n{match.group(1)}\n```\n"
preserve_code(group1) ==
    <<NL>> \o Fence \o <<"p", "y", "t", "h", "o", "n", NL>> \o group1
           \o <<NL>> \o Fence \o <<NL>>

\* re.sub(r"```python\n(.*?)\n```", preserve_code, text, flags=re.DOTALL) from
\* position i on: the leftmost match, its group the shortest one, then on from
\* the end of the match (matches do not overlap)
RECURSIVE ReSubFrom(_, _)
ReSubFrom(s, i) ==
    IF i > Len(s) THEN <<>>
    ELSE LET body   == i + Len(FenceOpen)
             closes == {j \in body..Len(s) : StartsWithAt(s, j, FenceClose)}
         IN  IF StartsWithAt(s, i, FenceOpen) /\ closes # {}
             THEN LET j == CHOOSE k \in closes : \A m \in closes : k <= m
                  IN  preserve_code(SubSeq(s, body, j - 1))
                      \o ReSubFrom(s, j + Len(FenceClose))
             ELSE <<s[i]>> \o ReSubFrom(s, i + 1)

ReSub(s) == ReSubFrom(s, 1)

\* text.split("\n")
RECURSIVE Split(_)
Split(s) ==
    LET nls == {k \in 1..Len(s) : s[k] = NL}
    IN  IF nls = {} THEN <<s>>
        ELSE LET k == CHOOSE n \in nls : \A m \in nls : n <= m
             IN  <<SubSeq(s, 1, k - 1)>> \o Split(SubSeq(s, k + 1, Len(s)))

\* sep.join(parts)
RECURSIVE Join(_, _)
Join(parts, sep) ==
    IF parts = <<>> THEN <<>>
    ELSE IF Len(parts) = 1 THEN parts[1]
    ELSE parts[1] \o sep \o Join(Tail(parts), sep)

RECURSIVE LStrip(_)
LStrip(s) ==
    IF s # <<>> /\ Head(s) \in Whitespace THEN LStrip(Tail(s)) ELSE s

RECURSIVE RStrip(_)
RStrip(s) ==
    IF s # <<>> /\ s[Len(s)] \in Whitespace
    THEN RStrip(SubSeq(s, 1, Len(s) - 1)) ELSE s

\* line.strip()
Strip(s) == RStrip(LStrip(s))

\* "> "
Blockquote == <<GT, SP>>

\* a plausible slip: the `if line:` test left out, so blank lines are quoted too
NonCodeLineKeepBlank(line) == << Blockquote \o Strip(line) >>

\* the non-code branch of the loop: strip, and append f"> {line}" when not empty
\* (the lines this input line adds to formatted_lines)
NonCodeLine(line) ==
    LET stripped == Strip(line)
    IN  IF stripped # <<>> THEN << Blockquote \o stripped >> ELSE <<>>

\* the loop over lines, from line i on, with the flag inside_code_block
RECURSIVE FormatLines(_, _, _)
FormatLines(lines, i, inside_code_block) ==
    IF i > Len(lines) THEN <<>>
    ELSE IF StartsWith(lines[i], Fence)
         THEN <<lines[i]>> \o FormatLines(lines, i + 1, ~inside_code_block)
    ELSE IF ~inside_code_block
         THEN NonCodeLine(lines[i]) \o FormatLines(lines, i + 1, inside_code_block)
    ELSE <<lines[i]>> \o FormatLines(lines, i + 1, inside_code_block)

\* IPython.display.Markdown(data): the object, which holds the text
Markdown(data) == [called |-> TRUE, data |-> data]

to_markdown(text) ==
    LET replaced == ReplaceBullets(text)
        subbed   == ReSub(replaced)
        lines    == Split(subbed)
        formatted_lines == FormatLines(lines, 1, FALSE)
    IN  Markdown(Join(formatted_lines, <<NL>>))

\* the pieces the input texts are made of
MdPieces == << Fence, FenceOpen, <<NL>>, <<SP>>, <<"a">>, <<BULLET>> >>

RECURSIVE Flatten(_)
Flatten(ps) ==
    IF ps = <<>> THEN <<>> ELSE MdPieces[Head(ps)] \o Flatten(Tail(ps))

MdInputs ==
    { Flatten(ps) : ps \in UNION { [1..n -> 1..Len(MdPieces)] : n \in 0..MaxPieces } }

NotCalled == [called |-> FALSE, data |-> <<>>]

\* the action: one call to_markdown(md_text)
ToMarkdown ==
    /\ ~md_result.called
    /\ md_result' = to_markdown(md_text)
    /\ UNCHANGED <<md_text, fd_vars, session_vars, cache_vars, proc_vars>>


-----------------------------------------------------------------------------
(* Documents.                                                              *)

\* langchain's Document(page_content=..., metadata=...): the object
Document(page_content, metadata) ==
    [cls |-> "Document", page_content |-> page_content, metadata |-> metadata]

\* doc.__dict__: the object's fields as a plain mapping
ToDict(doc) == [page_content |-> doc.page_content, metadata |-> doc.metadata]

\* Document(**doc_dict)
FromDict(doc_dict) == Document(doc_dict.page_content, doc_dict.metadata)

\* WikipediaLoader's metadata: string fields (here the source URL)
Meta(source) == [source |-> source]

-----------------------------------------------------------------------------
(* format_docs.                                                            *)

\* the `docs` argument: None, or a list of documents
None == [is_none |-> TRUE, list |-> <<>>]
List(l) == [is_none |-> FALSE, list |-> l]

\* a call's outcome: the value returned, or the exception raised
Returned(value) == [called |-> TRUE, exc |-> "", value |-> value]
Raised(exc) == [called |-> TRUE, exc |-> exc, value |-> <<>>]
FmtNotCalled == [called |-> FALSE, exc |-> "", value |-> <<>>]

\* "\n\n".join(doc.page_content for doc in docs): iterating None raises TypeError
format_docs(docs) ==
    IF docs.is_none THEN Raised("TypeError")
    ELSE Returned(Join([i \in 1..Len(docs.list) |-> docs.list[i].page_content],
                       <<NL, NL>>))

FmtContents == { <<>>, <<"a">>, <<"b">>, <<"a", NL, NL, "b">> }
FmtDocs == { Document(c, Meta("u")) : c \in FmtContents }
FmtInputs ==
    {None} \cup { List(l) : l \in UNION { [1..n -> FmtDocs] : n \in 0..MaxFmtDocs } }

\* the action: one call format_docs(fd_docs)
FormatDocs ==
    /\ ~fd_result.called
    /\ fd_result' = format_docs(fd_docs)
    /\ UNCHANGED <<fd_docs, md_vars, session_vars, cache_vars, proc_vars>>

-----------------------------------------------------------------------------
(* The session store.                                                      *)

Sessions == {"s1", "s2", "s3"}
Turns == {"human", "ai"}

\* an empty mapping (store = {})
EmptyMap == [x \in {} |-> 0]

\* a plausible slip: one history object shared by every session
NewHistoryShared(h) == IF h = <<>> THEN <<1, <<<<>>>> >> ELSE <<1, h>>

\* ChatMessageHistory(): a fresh object with no messages; <<reference, heap>>
NewHistory(h) == <<Len(h) + 1, Append(h, <<>>)>>

\* a plausible slip: the `if session_id not in store` test left out
GetOrCreateAlways(st, h, session_id) ==
    LET new == NewHistory(h)
    IN  [store |-> (session_id :> new[1]) @@ st, heap |-> new[2]]

\* if session_id not in store: store[session_id] = ChatMessageHistory()
GetOrCreate(st, h, session_id) ==
    IF session_id \notin DOMAIN st
    THEN LET new == NewHistory(h)
         IN  [store |-> (session_id :> new[1]) @@ st, heap |-> new[2]]
    ELSE [store |-> st, heap |-> h]

\* what f"{store}" shows: every session with its history's messages
Shown(st, h) == [s \in DOMAIN st |-> h[st[s]]]

NoSessionCall == [session_id |-> "", hist |-> 0, messages |-> <<>>]

\* the action: one call get_session_history(session_id); the caller reads the
\* returned object's messages
get_session_history(session_id) ==
    LET after == GetOrCreate(store, heap, session_id)
        hist  == after.store[session_id]
    IN  /\ Len(heap) < MaxHistories
        /\ display_out' = Shown(store, heap)
        /\ store' = after.store
        /\ heap' = after.heap
        /\ session_ret' = [session_id |-> session_id, hist |-> hist,
                           messages |-> after.heap[hist]]
        /\ first_hist' = IF session_id \in DOMAIN first_hist THEN first_hist
                         ELSE (session_id :> hist) @@ first_hist
        /\ UNCHANGED <<md_vars, fd_vars, cache_vars, proc_vars>>

\* the caller appends a turn through a history object it was handed:
\* hist.add_message(turn)
add_message(hist, turn) ==
    /\ hist \in 1..Len(heap)
    /\ Len(heap[hist]) < MaxTurns
    /\ heap' = [heap EXCEPT ![hist] = Append(@, turn)]
    /\ UNCHANGED <<store, session_ret, display_out, first_hist,
                   md_vars, fd_vars, cache_vars, proc_vars>>


-----------------------------------------------------------------------------
(* The cache file and its JSON text.                                       *)
(*                                                                         *)
(* `cache` is a Python dict, which keeps insertion order: a sequence of    *)
(* entries [key, value] with distinct keys.  The file's text is a sequence *)
(* of chunks, the units json.dump hands to f.write: "{", a key with its    *)
(* "[", one document's mapping, "]", "}".  A chunk of NUL bytes fills the  *)
(* hole a write behind the end of the file leaves.                         *)

Titles == {"A", "B"}

Docs == { Document(<<"X">>, Meta("u1")), Document(<<"Y">>, Meta("u2")) }
DocLists == UNION { [1..n -> Docs] : n \in 0..MaxDocs }

\* title in cache
DictHas(d, k) == \E i \in 1..Len(d) : d[i].key = k

\* cache[title]
DictGet(d, k) == d[CHOOSE i \in 1..Len(d) : d[i].key = k].value

\* cache[title] = value
DictSet(d, k, v) ==
    IF DictHas(d, k)
    THEN [i \in 1..Len(d) |-> IF d[i].key = k THEN [key |-> k, value |-> v] ELSE d[i]]
    ELSE Append(d, [key |-> k, value |-> v])

DictKeys(d) == { d[i].key : i \in 1..Len(d) }

NoDict == [page_content |-> <<>>, metadata |-> Meta("")]
Chunk(k, title, doc) == [k |-> k, title |-> title, doc |-> doc]
ObjOpen    == Chunk("{", "", NoDict)
ObjClose   == Chunk("}", "", NoDict)
ArrClose   == Chunk("]", "", NoDict)
Nul        == Chunk("NUL", "", NoDict)
KeyChunk(t) == Chunk("key", t, NoDict)
DocChunk(d) == Chunk("doc", "", d)

\* the chunks of one entry: "title": [ doc, ..., doc ]
EntryChunks(e) ==
    <<KeyChunk(e.key)>> \o [i \in 1..Len(e.value) |-> DocChunk(e.value[i])]
                        \o <<ArrClose>>

RECURSIVE EntriesChunks(_)
EntriesChunks(d) ==
    IF d = <<>> THEN <<>> ELSE EntryChunks(Head(d)) \o EntriesChunks(Tail(d))

\* json.dump(cache, f, indent=4): the chunks written, in order
JsonDump(cache) == <<ObjOpen>> \o EntriesChunks(cache) \o <<ObjClose>>

\* json.load from chunk i on; acc is the dict built so far, cur the entry being
\* read.  Anything but one complete object is a JSONDecodeError.
RECURSIVE ParseFrom(_, _, _, _)
ParseFrom(toks, i, acc, cur) ==
    IF i > Len(toks) THEN [ok |-> FALSE, cache |-> <<>>]
    ELSE LET t == toks[i]
         IN  IF ~cur.open /\ t.k = "}"
             THEN [ok |-> i = Len(toks), cache |-> IF i = Len(toks) THEN acc ELSE <<>>]
             ELSE IF ~cur.open /\ t.k = "key"
             THEN ParseFrom(toks, i + 1, acc, [open |-> TRUE, key |-> t.title, docs |-> <<>>])
             ELSE IF cur.open /\ t.k = "doc"
             THEN ParseFrom(toks, i + 1, acc, [cur EXCEPT !.docs = Append(@, t.doc)])
             ELSE IF cur.open /\ t.k = "]"
             THEN ParseFrom(toks, i + 1, DictSet(acc, cur.key, cur.docs),
                            [open |-> FALSE, key |-> "", docs |-> <<>>])
             ELSE [ok |-> FALSE, cache |-> <<>>]

\* json.load(f)
JsonLoad(toks) ==
    IF toks = <<>> \/ toks[1].k # "{" THEN [ok |-> FALSE, cache |-> <<>>]
    ELSE ParseFrom(toks, 2, <<>>, [open |-> FALSE, key |-> "", docs |-> <<>>])

NoFile == [exists |-> FALSE, data |-> <<>>]

\* lines 110-114: read the file; FileNotFoundError gives {}, a JSONDecodeError
\* is not caught
ReadCache(f) ==
    IF ~f.exists THEN [exc |-> "", cache |-> <<>>]
    ELSE LET r == JsonLoad(f.data)
         IN  IF r.ok THEN [exc |-> "", cache |-> r.cache]
             ELSE [exc |-> "JSONDecodeError", cache |-> <<>>]

\* a plausible slip: only page_content is passed to Document
HitContentOnly(cache, title) ==
    LET dicts == DictGet(cache, title)
    IN  [i \in 1..Len(dicts) |-> Document(dicts[i].page_content, Meta(""))]

\* line 118: [Document(**doc_dict) for doc_dict in cache[title]]
Hit(cache, title) ==
    LET dicts == DictGet(cache, title)
    IN  [i \in 1..Len(dicts) |-> FromDict(dicts[i])]

\* a plausible slip: a fresh dict holding only the new entry
StoreOnlyNew(cache, title, docs) ==
    << [key |-> title, value |-> [i \in 1..Len(docs) |-> ToDict(docs[i])]] >>

\* line 124: cache[title] = [doc.__dict__ for doc in docs]
Store(cache, title, docs) ==
    DictSet(cache, title, [i \in 1..Len(docs) |-> ToDict(docs[i])])

\* what the page loader does when invoked: raise, or return documents
LoaderRaises == [raises |-> TRUE, docs |-> <<>>]
LoaderReturns(docs) == [raises |-> FALSE, docs |-> docs]
LoaderOutcomes == {LoaderRaises} \cup { LoaderReturns(l) : l \in DocLists }

\* a call and its outcome: the title asked for, whether the loader would raise
\* if invoked, the exception raised ("" for none), the list returned, whether
\* it was served from the cache
Outcome(title, loader, exc, docs, hit) ==
    [title |-> title, loader_raises |-> loader.raises, exc |-> exc,
     docs |-> docs, hit |-> hit]
NoCall == Outcome("", LoaderRaises, "", <<>>, FALSE)

\* a plausible slip: a loader error is swallowed and an empty list cached
MissSwallow(f, cache, title, loader) ==
    LET docs == IF loader.raises THEN <<>> ELSE loader.docs
    IN  [exc |-> "", docs |-> docs,
         file |-> [exists |-> TRUE, data |-> JsonDump(Store(cache, title, docs))]]

\* lines 120-129 run to their end by one process alone: load, store, rewrite
\* the whole file, return docs; a loader error leaves through line 121
Miss(f, cache, title, loader) ==
    IF loader.raises THEN [exc |-> "LoaderError", docs |-> <<>>, file |-> f]
    ELSE [exc |-> "", docs |-> loader.docs,
          file |-> [exists |-> TRUE,
                    data |-> JsonDump(Store(cache, title, loader.docs))]]

\* the action: one call load_wikipedia_with_cache(title) run from start to end;
\* `loader` is what WikipediaLoader(title).load() does if it is invoked
load_wikipedia_with_cache(title, loader) ==
    LET r == ReadCache(file)
    IN  /\ requested' = requested \cup {title}
        /\ IF r.exc # ""
           THEN /\ last_call' = Outcome(title, loader, r.exc, <<>>, FALSE)
                /\ UNCHANGED <<file, loader_calls>>
           ELSE IF DictHas(r.cache, title)
           THEN /\ last_call' = Outcome(title, loader, "", Hit(r.cache, title), TRUE)
                /\ UNCHANGED <<file, loader_calls>>
           ELSE LET m == Miss(file, r.cache, title, loader)
                IN  /\ loader_calls[title] < MaxLoads
                    /\ loader_calls' = [loader_calls EXCEPT ![title] = @ + 1]
                    /\ file' = m.file
                    /\ last_call' = Outcome(title, loader, m.exc, m.docs, FALSE)
        /\ UNCHANGED <<md_vars, fd_vars, session_vars, proc_vars>>


-----------------------------------------------------------------------------
(* load_wikipedia_with_cache step by step, for processes that share the    *)
(* cache file.  Each process has its own file descriptor and offset; the   *)
(* file itself is the only thing they share.                               *)

Procs == {1, 2}

ProcOutcome(title, exc, docs, hit) ==
    [title |-> title, exc |-> exc, docs |-> docs, hit |-> hit]
NoProcCall == ProcOutcome("", "", <<>>, FALSE)

\* a plausible slip: mode "r+" instead of "w": the old text is kept
OpenKeep(f) == [exists |-> TRUE, data |-> f.data]

\* line 126: open(CACHE_FILE, "w") creates the file or truncates it
OpenForWrite(f) == [exists |-> TRUE, data |-> <<>>]

\* f.write of one chunk at offset off: the text behind it is kept, a hole
\* before it reads as NUL
WriteAt(data, off, chunk) ==
    LET n == IF Len(data) > off + 1 THEN Len(data) ELSE off + 1
    IN  [i \in 1..n |-> IF i = off + 1 THEN chunk
                        ELSE IF i <= Len(data) THEN data[i] ELSE Nul]

\* the locals of a process that is not in a call
Leave(p) ==
    /\ pc' = [pc EXCEPT ![p] = "idle"]
    /\ l_title' = [l_title EXCEPT ![p] = ""]
    /\ l_cache' = [l_cache EXCEPT ![p] = <<>>]
    /\ l_docs' = [l_docs EXCEPT ![p] = <<>>]
    /\ l_out' = [l_out EXCEPT ![p] = <<>>]
    /\ l_off' = [l_off EXCEPT ![p] = 0]

\* lines 110-118: the call starts, reads the cache and returns on a hit
P_Read(p, title) ==
    LET r == ReadCache(file)
    IN  /\ pc[p] = "idle"
        /\ IF r.exc # ""
           THEN /\ ret' = [ret EXCEPT ![p] = ProcOutcome(title, r.exc, <<>>, FALSE)]
                /\ UNCHANGED <<pc, l_title, l_cache>>
           ELSE IF DictHas(r.cache, title)
           THEN /\ ret' = [ret EXCEPT ![p] = ProcOutcome(title, "", Hit(r.cache, title), TRUE)]
                /\ UNCHANGED <<pc, l_title, l_cache>>
           ELSE /\ pc' = [pc EXCEPT ![p] = "load"]
                /\ l_title' = [l_title EXCEPT ![p] = title]
                /\ l_cache' = [l_cache EXCEPT ![p] = r.cache]
                /\ UNCHANGED ret
        /\ UNCHANGED <<file, l_docs, l_out, l_off, clean>>
        /\ UNCHANGED <<last_call, loader_calls, requested, md_vars, fd_vars, session_vars>>

\* lines 120-124: the loader runs; its documents go into the local cache
P_Load(p, loader) ==
    /\ pc[p] = "load"
    /\ IF loader.raises
       THEN /\ ret' = [ret EXCEPT ![p] = ProcOutcome(l_title[p], "LoaderError", <<>>, FALSE)]
            /\ Leave(p)
       ELSE /\ pc' = [pc EXCEPT ![p] = "open"]
            /\ l_docs' = [l_docs EXCEPT ![p] = loader.docs]
            /\ l_cache' = [l_cache EXCEPT ![p] = Store(@, l_title[p], loader.docs)]
            /\ UNCHANGED <<ret, l_title, l_out, l_off>>
    /\ UNCHANGED <<file, clean>>
    /\ UNCHANGED <<last_call, loader_calls, requested, md_vars, fd_vars, session_vars>>

\* line 126: the file is opened for writing
P_Open(p) ==
    /\ pc[p] = "open"
    /\ file' = OpenForWrite(file)
    /\ pc' = [pc EXCEPT ![p] = "dump"]
    /\ l_out' = [l_out EXCEPT ![p] = JsonDump(l_cache[p])]
    /\ l_off' = [l_off EXCEPT ![p] = 0]
    /\ clean' = [q \in Procs |-> q = p]
    /\ UNCHANGED <<ret, l_title, l_cache, l_docs>>
    /\ UNCHANGED <<last_call, loader_calls, requested, md_vars, fd_vars, session_vars>>

\* line 127: json.dump hands the next chunk to the file
P_Write(p) ==
    /\ pc[p] = "dump"
    /\ l_off[p] < Len(l_out[p])
    /\ file' = [exists |-> TRUE,
                data |-> WriteAt(file.data, l_off[p], l_out[p][l_off[p] + 1])]
    /\ l_off' = [l_off EXCEPT ![p] = @ + 1]
    /\ clean' = [q \in Procs |-> q = p /\ clean[p]]
    /\ UNCHANGED <<pc, ret, l_title, l_cache, l_docs, l_out>>
    /\ UNCHANGED <<last_call, loader_calls, requested, md_vars, fd_vars, session_vars>>

\* lines 127-129: the dump is complete, the file is closed, docs is returned
P_Close(p) ==
    /\ pc[p] = "dump"
    /\ l_off[p] = Len(l_out[p])
    /\ ret' = [ret EXCEPT ![p] = ProcOutcome(l_title[p], "", l_docs[p], FALSE)]
    /\ Leave(p)
    /\ UNCHANGED <<file, clean>>
    /\ UNCHANGED <<last_call, loader_calls, requested, md_vars, fd_vars, session_vars>>

\* lines 126-127: the call fails or stops inside the with block (an interrupt,
\* a full disk, a value json cannot encode); nothing restores the file
P_Interrupt(p) ==
    /\ pc[p] = "dump"
    /\ ret' = [ret EXCEPT ![p] = ProcOutcome(l_title[p], "Interrupted", <<>>, FALSE)]
    /\ Leave(p)
    /\ UNCHANGED <<file, clean>>
    /\ UNCHANGED <<last_call, loader_calls, requested, md_vars, fd_vars, session_vars>>

-----------------------------------------------------------------------------
(* Initial states and specifications.                                      *)

MdInit == md_text = <<>> /\ md_result = NotCalled
FdInit == fd_docs = List(<<>>) /\ fd_result = FmtNotCalled
SessionInit ==
    /\ store = EmptyMap
    /\ heap = <<>>
    /\ session_ret = NoSessionCall
    /\ display_out = EmptyMap
    /\ first_hist = EmptyMap
CacheInit ==
    /\ file = NoFile
    /\ last_call = NoCall
    /\ loader_calls = [t \in Titles |-> 0]
    /\ requested = {}
ProcInit ==
    /\ pc = [p \in Procs |-> "idle"]
    /\ l_title = [p \in Procs |-> ""]
    /\ l_cache = [p \in Procs |-> <<>>]
    /\ l_docs = [p \in Procs |-> <<>>]
    /\ l_out = [p \in Procs |-> <<>>]
    /\ l_off = [p \in Procs |-> 0]
    /\ ret = [p \in Procs |-> NoProcCall]
    /\ clean = [p \in Procs |-> FALSE]

\* the module just imported: store = {}, no cache file, nothing called yet
Init == MdInit /\ FdInit /\ SessionInit /\ CacheInit /\ ProcInit

\* one process calls load_wikipedia_with_cache again and again; the loader may fail
Next == \E title \in Titles, loader \in LoaderOutcomes :
            load_wikipedia_with_cache(title, loader)
Spec == Init /\ [][Next]_vars

\* the same, with a loader that never fails
NextNoFailure == \E title \in Titles, docs \in DocLists :
                    load_wikipedia_with_cache(title, LoaderReturns(docs))
SpecNoFailure == Init /\ [][NextNoFailure]_vars

\* what the loader returns for each title while processes run side by side
Page(title) ==
    IF title = "A" THEN << Document(<<"X">>, Meta("u1")) >>
    ELSE << Document(<<"X">>, Meta("u1")), Document(<<"Y">>, Meta("u2")) >>

\* processes that share the cache file, each running the function step by
\* step; every call runs to its end
NextProcesses ==
    \E p \in Procs :
        \/ \E title \in Titles : P_Read(p, title)
        \/ \E loader \in {LoaderRaises, LoaderReturns(Page(l_title[p]))} :
               P_Load(p, loader)
        \/ P_Open(p)
        \/ P_Write(p)
        \/ P_Close(p)
SpecProcesses == Init /\ [][NextProcesses]_vars

\* one process running the function step by step; a call may fail or stop
\* while it writes the file
NextInterrupt ==
    \E p \in {1} :
        \/ \E title \in Titles : P_Read(p, title)
        \/ \E loader \in LoaderOutcomes : P_Load(p, loader)
        \/ P_Open(p)
        \/ P_Write(p)
        \/ P_Close(p)
        \/ P_Interrupt(p)
SpecInterrupt == Init /\ [][NextInterrupt]_vars

\* get_session_history, and callers appending to the histories they hold
NextSession ==
    \/ \E session_id \in Sessions : get_session_history(session_id)
    \/ \E hist \in 1..MaxHistories, turn \in Turns : add_message(hist, turn)
SpecSession == Init /\ [][NextSession]_vars

\* to_markdown applied to each input text
InitMarkdown ==
    /\ md_text \in MdInputs
    /\ md_result = NotCalled
    /\ FdInit /\ SessionInit /\ CacheInit /\ ProcInit
SpecMarkdown == InitMarkdown /\ [][ToMarkdown]_vars

\* format_docs applied to each input
InitFormat ==
    /\ fd_docs \in FmtInputs
    /\ fd_result = FmtNotCalled
    /\ MdInit /\ SessionInit /\ CacheInit /\ ProcInit
SpecFormat == InitFormat /\ [][FormatDocs]_vars


-----------------------------------------------------------------------------
(* The claims.                                                             *)

\* the mapping the cache file holds ({} when there is no file)
FileMap == IF file.exists THEN JsonLoad(file.data).cache ELSE <<>>
\* the file is absent, or one complete JSON object
FileIntact == ~file.exists \/ JsonLoad(file.data).ok
Cached(title) == DictHas(FileMap, title)

\* C1: a call for a title that was not cached, followed by a call for the same
\* title: the second call returns the list the first returned, in the same
\* order, does not invoke the loader (whatever the loader would do, raising
\* included), and leaves the cache file as the first call left it.
\* (Every step of Spec is one call; last_call' names its title.)
C1_CacheRoundTrip ==
    [][ ( /\ last_call.title \in Titles
          /\ last_call.exc = ""
          /\ ~last_call.hit
          /\ last_call'.title = last_call.title )
        => ( /\ last_call'.exc = ""
             /\ last_call'.hit
             /\ last_call'.docs = last_call.docs
             /\ loader_calls' = loader_calls
             /\ file' = file ) ]_vars

\* C1's case: a second call served from the cache while the loader would
\* raise, returning two different documents with their metadata
C1_Witness ==
    /\ last_call.hit
    /\ last_call.exc = ""
    /\ last_call.loader_raises
    /\ Len(last_call.docs) = 2
    /\ last_call.docs[1] # last_call.docs[2]
    /\ last_call.docs[1].metadata # Meta("")

\* C4: a call for a title that is not cached whose loader raises: the loader's
\* error reaches the caller, the loader was invoked once, the cache file is as
\* it was before the call (absent if it was absent), and the next call for
\* that title invokes the loader again.
C4_LoaderErrorPropagates ==
    [][ LET title == last_call'.title
        IN  /\ (~Cached(title) /\ last_call'.loader_raises) =>
                   /\ last_call'.exc = "LoaderError"
                   /\ last_call'.docs = <<>>
                   /\ loader_calls' = [loader_calls EXCEPT ![title] = @ + 1]
                   /\ file' = file
            /\ (last_call.title = title /\ last_call.exc = "LoaderError") =>
                   loader_calls'[title] = loader_calls[title] + 1 ]_vars

\* C4's case: a second failing call for the same title, still no cache file
C4_Witness ==
    /\ last_call.exc = "LoaderError"
    /\ loader_calls[last_call.title] = 2
    /\ ~file.exists

\* C10: with one process and no failures, a miss for a title appends exactly
\* that title's entry and leaves every other entry as it was, a hit changes
\* nothing; so the file's titles are the titles asked for so far and the loader
\* has been invoked exactly once for each of them.
C10_CacheOnlyGrows ==
    [][ LET title == last_call'.title
            docs  == last_call'.docs
        IN  /\ last_call'.exc = ""
            /\ last_call'.hit = Cached(title)
            /\ IF Cached(title)
               THEN file' = file /\ loader_calls' = loader_calls
               ELSE FileMap' = Append(FileMap,
                        [key |-> title,
                         value |-> [i \in 1..Len(docs) |-> ToDict(docs[i])]])
            /\ FileIntact'
            /\ DictKeys(FileMap') = requested'
            /\ \A t \in Titles :
                   loader_calls'[t] = IF t \in requested' THEN 1 ELSE 0 ]_vars

\* C10's case: every title asked for and cached, the last call a hit
C10_Witness ==
    /\ requested = Titles
    /\ DictKeys(FileMap) = Titles
    /\ Len(FileMap[1].value) = 2
    /\ last_call.hit
    /\ \A t \in Titles : loader_calls[t] = 1

\* C8: when a process that wrote the file undisturbed returns, the file holds
\* exactly that process's in-memory copy: what it read at the start of its call
\* plus its own title.  Nothing another process added in between survives.
C8_LastWriterWins ==
    [][ \A p \in Procs :
            ( /\ pc[p] = "dump"
              /\ pc'[p] = "idle"
              /\ ret'[p].exc = ""
              /\ clean[p] )
            => ( /\ FileIntact'
                 /\ FileMap' = l_cache[p] ) ]_vars

\* C8's case: both processes returned successfully from a miss, for different
\* titles, and the file holds only one of the two titles
C8_LostUpdate ==
    /\ \A p \in Procs : pc[p] = "idle" /\ ret[p].exc = "" /\ ~ret[p].hit
                        /\ ret[p].title \in Titles
    /\ ret[1].title # ret[2].title
    /\ FileIntact
    /\ Cardinality(DictKeys(FileMap)) = 1

\* C3: whenever no call is under way, the cache file is absent or a complete
\* mapping from title to document list, also after a call that failed or
\* stopped between opening the file for writing and the end of the dump.
C3_FileNeverLeftPartial ==
    (\A p \in Procs : pc[p] = "idle") => FileIntact


\* C2: the first call for a session id creates an empty history and stores it
\* under that id; every later call for the id, whatever was called in between,
\* returns that same object, so the turns appended through it so far are the
\* messages the later call's object shows.
C2_GetOrCreateIdempotent ==
    [][ \A session_id \in Sessions :
            get_session_history(session_id) =>
                IF session_id \in DOMAIN first_hist
                THEN /\ session_ret'.hist = first_hist[session_id]
                     /\ session_ret'.messages = heap[first_hist[session_id]]
                     /\ store' = store
                     /\ heap' = heap
                ELSE /\ session_ret'.hist \notin 1..Len(heap)
                     /\ session_ret'.messages = <<>>
                     /\ store'[session_id] = session_ret'.hist ]_vars

\* C2's case: a later call for the first session, after other sessions were
\* created, returns the first object with the turns appended to it
C2_Witness ==
    /\ session_ret.session_id \in DOMAIN first_hist
    /\ session_ret.hist = first_hist[session_ret.session_id]
    /\ session_ret.hist = 1
    /\ Len(heap) = Cardinality(Sessions)
    /\ Len(session_ret.messages) = MaxTurns

\* C9: no entry of the store is ever deleted or replaced; its keys are the
\* session ids asked for so far, each maps to the object its first call
\* created, different ids map to different objects, and an append to one
\* history changes no other history.
C9_StoreOnlyGrows ==
    [][ /\ \A s \in DOMAIN store : s \in DOMAIN store' /\ store'[s] = store[s]
        /\ DOMAIN store' = DOMAIN first_hist'
        /\ \A s \in DOMAIN store' : store'[s] = first_hist'[s]
        /\ \A s1, s2 \in DOMAIN store' : s1 # s2 => store'[s1] # store'[s2]
        /\ \A hist \in 1..Len(heap), turn \in Turns :
               add_message(hist, turn) =>
                   \A other \in 1..Len(heap) :
                       other # hist => heap'[other] = heap[other] ]_vars

\* C9's case: every session created, one history with turns, another without
C9_Witness ==
    /\ DOMAIN store = Sessions
    /\ heap[store["s1"]] # <<>>
    /\ heap[store["s2"]] = <<>>
    /\ store["s1"] # store["s2"]

\* C5: format_docs returns the documents' page_content joined, in order, by a
\* double line break: "" for the empty list, the document's content for a
\* singleton, and "" for None, never an error.
C5_FormatDocsJoins ==
    fd_result.called =>
        /\ fd_result.exc = ""
        /\ fd_docs.is_none => fd_result.value = <<>>
        /\ (~fd_docs.is_none /\ fd_docs.list = <<>>) => fd_result.value = <<>>
        /\ (~fd_docs.is_none /\ Len(fd_docs.list) = 1) =>
               fd_result.value = fd_docs.list[1].page_content
        /\ (~fd_docs.is_none /\ Len(fd_docs.list) > 1) =>
               fd_result.value =
                   fd_docs.list[1].page_content \o <<NL, NL>>
                   \o Join([i \in 1..(Len(fd_docs.list) - 1) |->
                                fd_docs.list[i + 1].page_content], <<NL, NL>>)

\* the contents of the fenced blocks of a text's lines that are closed: the
\* lines strictly between a line that opens a fence and the next fence line
RECURSIVE ClosedBlocks(_, _, _, _, _)
ClosedBlocks(lines, i, inside, cur, acc) ==
    IF i > Len(lines) THEN acc
    ELSE IF StartsWith(lines[i], Fence)
         THEN IF inside
              THEN ClosedBlocks(lines, i + 1, FALSE, <<>>, Append(acc, cur))
              ELSE ClosedBlocks(lines, i + 1, TRUE, <<>>, acc)
    ELSE IF inside
         THEN ClosedBlocks(lines, i + 1, inside, Append(cur, lines[i]), acc)
    ELSE ClosedBlocks(lines, i + 1, inside, cur, acc)

BlocksOf(text) == ClosedBlocks(Split(text), 1, FALSE, <<>>, <<>>)

\* C6: the content between a code-fence-open line and the next code-fence-close
\* line of the input is in the output unchanged, as the content of a fenced
\* block: no prefix added, nothing trimmed, no blank line dropped, no
\* character replaced.
C6_CodeBlocksVerbatim ==
    md_result.called =>
        LET ins  == BlocksOf(md_text)
            outs == BlocksOf(md_result.data)
        IN  \A k \in 1..Len(ins) : \E m \in 1..Len(outs) : outs[m] = ins[k]

\* a line without its leading and trailing whitespace
Trim(line) ==
    LET solid == {i \in 1..Len(line) : line[i] \notin Whitespace}
    IN  IF solid = {} THEN <<>>
        ELSE SubSeq(line, CHOOSE i \in solid : \A j \in solid : i <= j,
                          CHOOSE i \in solid : \A j \in solid : i >= j)

HasFence(text) == \E i \in 1..Len(text) : StartsWithAt(text, i, Fence)

\* one output line per input line that is not blank: the marker, then the line
\* with its bullets replaced and its ends trimmed
RECURSIVE Quoted(_)
Quoted(lines) ==
    IF lines = <<>> THEN <<>>
    ELSE (IF Trim(Head(lines)) = <<>> THEN <<>>
          ELSE << <<GT, SP>> \o Trim(ReplaceBullets(Head(lines))) >>)
         \o Quoted(Tail(lines))

\* C7: for a text with no code fence the output is, in input order, one line
\* per non-blank input line: "> " followed by the line with its bullets
\* replaced and its leading and trailing whitespace removed; blank and
\* whitespace-only lines give no output line.
C7_NoFenceBlockquote ==
    (md_result.called /\ ~HasFence(md_text)) =>
        Split(md_result.data) =
            (IF Quoted(Split(md_text)) = <<>> THEN << <<>> >>
             ELSE Quoted(Split(md_text)))

\* C7's case: a text without a fence that has a blank line, a line with
\* whitespace at both ends and a bullet, formatted
C7_Witness ==
    /\ md_result.called
    /\ ~HasFence(md_text)
    /\ LET lines == Split(md_text)
       IN  /\ \E i \in 1..Len(lines) : lines[i] # <<>> /\ Trim(lines[i]) = <<>>
           /\ \E i \in 1..Len(lines) :
                  /\ Trim(lines[i]) # <<>>
                  /\ Head(lines[i]) = SP
                  /\ lines[i][Len(lines[i])] = SP
           /\ \E i \in 1..Len(md_text) : md_text[i] = BULLET

=============================================================================
